---- MODULE Spec2Model ----
(***************************************************************************)
(* Model of src/src/main.py: a character-level tokenizer built on a        *)
(* transactional cursor (a stack of frames), a set of token matchers, an   *)
(* ordered dispatcher (first_parser) and a driver loop (root_parser).      *)
(*                                                                         *)
(* Text is a sequence of one-character strings; position i of the Python   *)
(* string is element i+1 of the sequence.  Every Python call that can      *)
(* raise is an operator returning a result record: the frame stack it      *)
(* leaves, the exception that leaves it ("none" when it returns) and what  *)
(* it returns.                                                             *)
(*                                                                         *)
(* main.py names two things it does not define: the scope `scoped` the     *)
(* matchers open and the class `Cursor` the driver is run on.  The only    *)
(* scope manager main.py defines is `transaction` and the only cursor is   *)
(* TransactionalCursor; the matchers are modelled on those.  The methods   *)
(* eat_only and eat_any are the ones of lines 113-117.                     *)
(***************************************************************************)
EXTENDS Integers, Sequences, FiniteSets, TLC

VARIABLES text, frames, op, pre, res, pc, tokens

vars == <<text, frames, op, pre, res, pc, tokens>>

\* ------------------------------------------------------------------ bounds
\* the longest text of an exhaustive run of the driver
MaxLen == 3
\* the longest text handed to a client of the cursor, beside Examples
MaxApiLen == 2
\* the deepest frame stack a client of the cursor opens
MaxDepth == 3
\* the longest rule list handed to first_parser, beside the registered one
MaxRules == 2

\* ------------------------------------------------------------- characters
Alphabet == {"'", "\"", ".", "0", "x", "b"}
DecDigits == {"0", "1", "2", "3", "4", "5", "6", "7", "8", "9"}
HexDigits == DecDigits \cup {"a", "b", "c", "d", "e", "f", "A", "B", "C", "D", "E", "F"}
BinDigits == {"0", "1"}
Quotes == {"'", "\""}
Char == Alphabet \cup HexDigits
EOF == "EOF"
None == "None"
NoExc == "none"

\* ------------------------------------------------------------------ values
Frame(s, e) == [start_index |-> s, end_index |-> e]
NoFrame == Frame(-1, -1)
Token(ty, value, s, e) == [ty |-> ty, value |-> value, start_index |-> s, end_index |-> e]
NoToken == Token(None, <<>>, -1, -1)

Result(fs) ==
  [frames |-> fs, exc |-> NoExc, failed_on_eof |-> FALSE,
   chr |-> None, frame |-> NoFrame, token |-> NoToken, calls |-> <<>>]
Raise(fs, e, eof) == [Result(fs) EXCEPT !.exc = e, !.failed_on_eof = eof]

\* Frame.value and Frame.token
value(t, f) == SubSeq(t, f.start_index + 1, f.end_index)
\* Frame.token with the end taken as the index of the last character
token_end_inclusive(t, f, ty) == Token(ty, value(t, f), f.start_index, f.end_index - 1)

token(t, f, ty) == Token(ty, value(t, f), f.start_index, f.end_index)

\* --------------------------------------------------- TransactionalCursor
\* index(): frames[-1].end_index; on an empty list frames[-1] raises IndexError,
\* which every caller below tests for with fs = <<>> before using index.
index(fs) == fs[Len(fs)].end_index

move(fs, delta) == [fs EXCEPT ![Len(fs)].end_index = @ + delta]

peek(t, fs) ==
  IF fs = <<>> THEN Raise(fs, "IndexError", FALSE)
  ELSE [Result(fs) EXCEPT !.chr = IF index(fs) < Len(t) THEN t[index(fs) + 1] ELSE EOF]

\* eat_if that moves before it tests the character
eat_chr_moves_first(fs, p, predicate) ==
  IF p.exc # NoExc THEN p
  ELSE IF p.chr # EOF /\ p.chr \in predicate
       THEN [Result(move(fs, 1)) EXCEPT !.chr = p.chr]
       ELSE Raise(IF p.chr = EOF THEN fs ELSE move(fs, 1), "EatFailed", p.chr = EOF)

\* eat_if after chr = self.peek(), p the result of the peek
eat_chr(fs, p, predicate) ==
  IF p.exc # NoExc THEN p
  ELSE IF p.chr # EOF /\ p.chr \in predicate
       THEN [Result(move(fs, 1)) EXCEPT !.chr = p.chr]
       ELSE Raise(fs, "EatFailed", p.chr = EOF)

eat_if(t, fs, predicate) == eat_chr(fs, peek(t, fs), predicate)

eat_only(t, fs, c) == eat_if(t, fs, {c})
eat_any(t, fs, lchr) == eat_if(t, fs, lchr)

\* commit() that forgets to hand the end to the parent frame
commit_forgets_parent(fs) ==
  IF fs = <<>> THEN Raise(fs, "IndexError", FALSE)
  ELSE Result(SubSeq(fs, 1, Len(fs) - 1))

commit(fs) ==
  IF fs = <<>> THEN Raise(fs, "IndexError", FALSE)
  ELSE LET n == Len(fs)
           fs1 == IF n > 1 THEN [fs EXCEPT ![n - 1].end_index = fs[n].end_index] ELSE fs
       IN Result(SubSeq(fs1, 1, n - 1))

\* rollback() that hands the end to the parent frame, as commit() does
rollback_keeps_end(fs) ==
  IF fs = <<>> THEN Raise(fs, "IndexError", FALSE)
  ELSE LET n == Len(fs)
           fs1 == IF n > 1 THEN [fs EXCEPT ![n - 1].end_index = fs[n].end_index] ELSE fs
       IN Result(SubSeq(fs1, 1, n - 1))

rollback(fs) ==
  IF fs = <<>> THEN Raise(fs, "IndexError", FALSE)
  ELSE Result(SubSeq(fs, 1, Len(fs) - 1))

\* begin() that opens the frame at the start of the top frame, not at its end
begin_at_start(fs) ==
  IF fs = <<>> THEN Raise(fs, "IndexError", FALSE)
  ELSE [Result(Append(fs, Frame(fs[Len(fs)].start_index, fs[Len(fs)].start_index)))
          EXCEPT !.frame = Frame(fs[Len(fs)].start_index, fs[Len(fs)].start_index)]

begin(fs) ==
  IF fs = <<>> THEN Raise(fs, "IndexError", FALSE)
  ELSE [Result(Append(fs, Frame(index(fs), index(fs))))
          EXCEPT !.frame = Frame(index(fs), index(fs))]

\* ------------------------------------------------------------ transaction
\* transaction whose except clause re-raises without cursor.rollback()
transaction_keeps_failed_frame(b, r) ==
  IF b.exc # NoExc
  THEN LET rb == rollback(b.frames) IN
       IF rb.exc # NoExc THEN rb ELSE Raise(rb.frames, b.exc, b.failed_on_eof)
  ELSE IF r.exc # NoExc
  THEN Raise(r.frames, r.exc, r.failed_on_eof)
  ELSE LET c == commit(r.frames) IN
       IF c.exc # NoExc THEN c
       ELSE [Result(c.frames) EXCEPT !.frame = r.frames[Len(r.frames)]]

\* with transaction(cursor) as frame: <body>.  b is the result of cursor.begin(),
\* run inside the try; r is the result of the body run on b.frames.
\*   body raised:   except: cursor.rollback(); raise   (the same exception)
\*   body returned: cursor.commit(); the yielded Frame is the top frame
transaction(b, r) ==
  IF b.exc # NoExc
  THEN LET rb == rollback(b.frames) IN
       IF rb.exc # NoExc THEN rb ELSE Raise(rb.frames, b.exc, b.failed_on_eof)
  ELSE IF r.exc # NoExc
  THEN LET rb == rollback(r.frames) IN
       IF rb.exc # NoExc THEN rb ELSE Raise(rb.frames, r.exc, r.failed_on_eof)
  ELSE LET c == commit(r.frames) IN
       IF c.exc # NoExc THEN c
       ELSE [Result(c.frames) EXCEPT !.frame = r.frames[Len(r.frames)]]

\* ------------------------------------------------------------------ guard
\* guard() that swallows only a failure at the end of input, whatever its mode
guard_always_eof_only(eof_only, r) ==
  IF r.exc = "EatFailed" /\ r.failed_on_eof
  THEN Result(r.frames)
  ELSE r

\* guard() that swallows every EatFailed, whatever its mode
guard_ignores_mode(eof_only, r) ==
  IF r.exc = "EatFailed"
  THEN Result(r.frames)
  ELSE r

\* with guard(eof_only): <body>, r the result of the body.
guard(eof_only, r) ==
  IF r.exc = "EatFailed" /\ (r.failed_on_eof \/ ~eof_only)
  THEN Result(r.frames)
  ELSE r

\* while cursor.eat_if(predicate, ...): pass
\* eat_if returns a one-character string, which is true: the loop ends only when
\* eat_if raises, and the result is that raise.  eat_more is the loop after one
\* eat_if, r the result of that eat_if.
RECURSIVE eat_while(_, _, _), eat_more(_, _, _)
eat_more(t, r, predicate) ==
  IF r.exc = NoExc THEN eat_while(t, r.frames, predicate) ELSE r

eat_while(t, fs, predicate) == eat_more(t, eat_if(t, fs, predicate), predicate)

\* The statements of a matcher's body run in sequence: r is the result of the
\* statements before, and a raise in them skips the statement.
\*   cursor.eat_if(predicate, ...)
then_eat_if(t, r, predicate) ==
  IF r.exc # NoExc THEN r ELSE eat_if(t, r.frames, predicate)

\*   with guard(): while cursor.eat_if(predicate, ...): pass
then_eat_while(t, r, predicate) ==
  IF r.exc # NoExc THEN r ELSE guard(FALSE, eat_while(t, r.frames, predicate))

\* --------------------------------------------------------------- matchers
\* return scoped_cursor.token(ty), reached only when the scope returned
scoped_token(t, tr, ty) ==
  IF tr.exc # NoExc THEN tr
  ELSE [Result(tr.frames) EXCEPT !.token = token(t, tr.frame, ty)]

\* p_str with the closing quote eaten inside the guard
p_str_closer_guarded(t, q) ==
  IF q.exc # NoExc THEN q
  ELSE guard(FALSE, then_eat_if(t, then_eat_while(t, q, Char \ {q.chr}), {q.chr}))

\* p_str after quote = eat_any("'\""), q the result of that call
p_str_quoted(t, q) ==
  IF q.exc # NoExc THEN q
  ELSE then_eat_if(t, then_eat_while(t, q, Char \ {q.chr}), {q.chr})

p_str_body(t, fs) == p_str_quoted(t, eat_any(t, fs, Quotes))

p_str(t, fs) ==
  scoped_token(t, transaction(begin(fs), p_str_body(t, begin(fs).frames)), "STRING")

p_dot_body(t, fs) == eat_only(t, fs, ".")

p_dot(t, fs) ==
  scoped_token(t, transaction(begin(fs), p_dot_body(t, begin(fs).frames)), "DOT")

p_hex_body(t, fs) ==
  then_eat_while(t,
    then_eat_if(t, then_eat_if(t, eat_only(t, fs, "0"), {"x"}), HexDigits),
    HexDigits)

p_hex(t, fs) ==
  scoped_token(t, transaction(begin(fs), p_hex_body(t, begin(fs).frames)), "HEX")

p_bin_body(t, fs) ==
  then_eat_while(t,
    then_eat_if(t, then_eat_if(t, eat_only(t, fs, "0"), {"b"}), BinDigits),
    BinDigits)

p_bin(t, fs) ==
  scoped_token(t, transaction(begin(fs), p_bin_body(t, begin(fs).frames)), "BIN")

\* p_dec that eats the decimal point without looking for it first
p_dec_fraction_required(t, n) ==
  IF n.exc # NoExc THEN n
  ELSE then_eat_while(t,
         then_eat_if(t, eat_only(t, n.frames, "."), DecDigits), DecDigits)

\* p_dec whose fraction is eaten inside a guard
p_dec_fraction_guarded(t, n) ==
  IF n.exc # NoExc THEN n
  ELSE IF peek(t, n.frames).chr = "."
       THEN guard(FALSE, then_eat_while(t,
              then_eat_if(t, eat_only(t, n.frames, "."), DecDigits), DecDigits))
       ELSE n

\* p_dec after the first run of digits, n the result of that run
p_dec_fraction(t, n) ==
  IF n.exc # NoExc THEN n
  ELSE IF peek(t, n.frames).chr = "."
       THEN then_eat_while(t,
              then_eat_if(t, eat_only(t, n.frames, "."), DecDigits), DecDigits)
       ELSE n

p_dec_body(t, fs) ==
  p_dec_fraction(t, then_eat_while(t, eat_if(t, fs, DecDigits), DecDigits))

p_dec(t, fs) ==
  scoped_token(t, transaction(begin(fs), p_dec_body(t, begin(fs).frames)), "DEC")

\* ------------------------------------------------- registry and dispatcher
parser_registry == <<"p_str", "p_dot", "p_hex", "p_bin", "p_dec">>
Parsers == {parser_registry[i] : i \in DOMAIN parser_registry}

\* parser(cursor)
call(parser, t, fs) ==
  CASE parser = "p_str" -> p_str(t, fs)
    [] parser = "p_dot" -> p_dot(t, fs)
    [] parser = "p_hex" -> p_hex(t, fs)
    [] parser = "p_bin" -> p_bin(t, fs)
    [] parser = "p_dec" -> p_dec(t, fs)

\* the position a call starts at; -1 when the cursor has no frame
position(fs) == IF fs = <<>> THEN -1 ELSE index(fs)

\* for parser in parsers: try: return parser(cursor) except ParsingFailed: pass
\* raise ParsingFailed()
\* calls lists the parsers invoked, each with the position it started at;
\* first_parser_tried is the loop after parsers[i] was called, r its result.
RECURSIVE first_parser_from(_, _, _, _, _), first_parser_tried(_, _, _, _, _)
first_parser_tried(parsers, i, t, r, calls) ==
  IF r.exc = "ParsingFailed"
  THEN first_parser_from(parsers, i + 1, t, r.frames, calls)
  ELSE [r EXCEPT !.calls = calls]

first_parser_from(parsers, i, t, fs, calls) ==
  IF i > Len(parsers)
  THEN [Raise(fs, "ParsingFailed", FALSE) EXCEPT !.calls = calls]
  ELSE first_parser_tried(parsers, i, t, call(parsers[i], t, fs),
         Append(calls, [parser |-> parsers[i], at |-> position(fs)]))

first_parser(parsers, t, fs) == first_parser_from(parsers, 1, t, fs, <<>>)

\* ------------------------------------------------------------------ inputs
Examples ==
  { <<"0", "x", "1", "A", ".", "5">>,
    <<"0", "b", "1", "0", "1">>,
    <<"1", ".", ".", "2">>,
    <<"0", "b">>,
    <<"\"", "a", "b", "c">>,
    <<"'", "0", "'", "'", "x", "'">>,
    <<"\"", "'", "\"">>,
    <<"0", "x", "b", "x">>,
    <<"0", "b", "0", "9">>,
    <<"9", ".", "9", ".">>,
    <<"0", "0", ".">> }

TextsUpTo(n) == UNION {[1..k -> Alphabet] : k \in 0..n}
Texts == TextsUpTo(MaxLen) \cup Examples
ApiTexts == TextsUpTo(MaxApiLen) \cup Examples

\* the predicates a client passes to eat_if
Predicates == {Char, DecDigits}

\* rule lists: the registered one, and every list of at most MaxRules distinct parsers
RuleLists ==
  {parser_registry} \cup
  {l \in UNION {[1..k -> Parsers] : k \in 0..MaxRules} :
     \A i, j \in DOMAIN l : i # j => l[i] # l[j]}

Op(name, predicate, parsers) == [name |-> name, predicate |-> predicate, parsers |-> parsers]

\* TransactionalCursor.__init__: no frame
TransactionalCursor == <<>>
\* A cursor whose first frame is open at the base position 0 of a lexing run.
\* main.py has no code that opens it: begin() needs a frame to read the position
\* from, and the class Cursor the driver constructs is not defined.
Cursor == <<Frame(0, 0)>>

\* ------------------------------------------------- the cursor and its client
\* A client holding a cursor calls its methods, the matchers and the dispatcher
\* in any order, catching whatever they raise.  op is the last call, pre the
\* frame stack before it, res what it returned or raised.
InitApi ==
  /\ text \in ApiTexts
  /\ frames \in {TransactionalCursor, Cursor}
  /\ op = Op("new", {}, <<>>)
  /\ pre = frames
  /\ res = Result(frames)
  /\ pc = "api"
  /\ tokens = <<>>

Did(name, predicate, parsers, r) ==
  /\ pc = "api"
  /\ op' = Op(name, predicate, parsers)
  /\ pre' = frames
  /\ res' = r
  /\ frames' = r.frames
  /\ UNCHANGED <<text, pc, tokens>>

Begin == Len(frames) < MaxDepth /\ Did("begin", {}, <<>>, begin(frames))

Commit == Did("commit", {}, <<>>, commit(frames))

Rollback == Did("rollback", {}, <<>>, rollback(frames))

Peek == Did("peek", {}, <<>>, peek(text, frames))

EatIf == \E predicate \in Predicates : Did("eat_if", predicate, <<>>, eat_if(text, frames, predicate))

CallParser == \E parser \in Parsers : Did(parser, {}, <<>>, call(parser, text, frames))

NextApi == Begin \/ Commit \/ Rollback \/ Peek \/ EatIf \/ CallParser

SpecApi == InitApi /\ [][NextApi]_vars

\* ------------------------------------------------ the dispatcher's caller
\* A caller holding a cursor dispatches on any rule list at any
\* position: between dispatches it may consume one character itself.
InitDispatch ==
  /\ text \in ApiTexts
  /\ frames \in {TransactionalCursor, Cursor}
  /\ op = Op("new", {}, <<>>)
  /\ pre = frames
  /\ res = Result(frames)
  /\ pc = "dispatch"
  /\ tokens = <<>>

Called(name, predicate, parsers, r) ==
  /\ pc = "dispatch"
  /\ op' = Op(name, predicate, parsers)
  /\ pre' = frames
  /\ res' = r
  /\ frames' = r.frames
  /\ UNCHANGED <<text, pc, tokens>>

Skip == Called("eat_if", Char, <<>>, eat_if(text, frames, Char))

FirstParser ==
  \E parsers \in RuleLists :
    Called("first_parser", {}, parsers, first_parser(parsers, text, frames))

NextDispatch == Skip \/ FirstParser

SpecDispatch == InitDispatch /\ [][NextDispatch]_vars

\* ------------------------------------------------------------ root_parser
\* for token in root_parser(cursor): one action per turn of the while loop.
\* op is the dispatch of the turn, pre the frame stack before it, res its result.
Init ==
  /\ text \in Texts
  /\ frames \in {TransactionalCursor, Cursor}
  /\ op = Op("new", {}, <<>>)
  /\ pre = frames
  /\ res = Result(frames)
  /\ pc = "loop"
  /\ tokens = <<>>

\* cursor.peek() is EOF: the generator returns
RootEOF ==
  /\ pc = "loop"
  /\ peek(text, frames).exc = NoExc
  /\ peek(text, frames).chr = EOF
  /\ pc' = "done"
  /\ op' = Op("peek", {}, <<>>)
  /\ pre' = frames
  /\ res' = peek(text, frames)
  /\ UNCHANGED <<text, frames, tokens>>

\* the turn's dispatch returned r
Yielded(r) ==
  /\ r.exc = NoExc
  /\ tokens' = Append(tokens, r.token)
  /\ frames' = r.frames
  /\ res' = r
  /\ op' = Op("first_parser", {}, parser_registry)
  /\ pre' = frames
  /\ UNCHANGED <<text, pc>>

\* yield first_parser(parser_registry.parsers, cursor)
RootYield ==
  /\ pc = "loop"
  /\ peek(text, frames).exc = NoExc
  /\ peek(text, frames).chr # EOF
  /\ Yielded(first_parser(parser_registry, text, frames))

\* the turn raised r: the exception leaves root_parser
Raised(name, r) ==
  /\ r.exc # NoExc
  /\ frames' = r.frames
  /\ res' = r
  /\ op' = Op(name, {}, IF name = "first_parser" THEN parser_registry ELSE <<>>)
  /\ pc' = "raised"
  /\ pre' = frames
  /\ UNCHANGED <<text, tokens>>

RootRaise ==
  /\ pc = "loop"
  /\ IF peek(text, frames).exc # NoExc
     THEN Raised("peek", peek(text, frames))
     ELSE /\ peek(text, frames).chr # EOF
          /\ Raised("first_parser", first_parser(parser_registry, text, frames))

Next == RootEOF \/ RootYield \/ RootRaise

Spec == Init /\ [][Next]_vars

\* The for loop of the driver keeps asking the generator for the next token
\* until it returns or raises: weak fairness of Next.  A turn of the loop is
\* enabled exactly when pc = "loop" (peek() raises, or is EOF, or the dispatch
\* returns or raises), so weak fairness of Next is: infinitely often the loop
\* has ended, or infinitely often a turn is taken.
LoopRuns == []<>(pc # "loop") \/ []<><<Next>>_vars

SpecLive == Spec /\ LoopRuns

\* ------------------------------------------- the statements of a matcher
\* The statements a matcher's body is made of, run one at a time on a cursor
\* that has a frame open: a scope opened, a character eaten, a character eaten
\* under a guard of either mode, and the guarded loop
\*   with guard(): while cursor.eat_if(predicate, ...): pass
\* one turn at a time.  pc is "while" inside the loop and "body" between
\* statements; op is the statement, pre the frame stack before it (for the
\* loop: when the loop was entered), res the result of its last call.
InitGuard ==
  /\ text \in ApiTexts
  /\ frames = Cursor
  /\ op = Op("new", {}, <<>>)
  /\ pre = frames
  /\ res = Result(frames)
  /\ pc = "body"
  /\ tokens = <<>>

Stated(name, predicate, r) ==
  /\ pc = "body"
  /\ op' = Op(name, predicate, <<>>)
  /\ pre' = frames
  /\ res' = r
  /\ frames' = r.frames
  /\ UNCHANGED <<text, pc, tokens>>

Open == Len(frames) < MaxDepth /\ Stated("begin", {}, begin(frames))

Eat == \E predicate \in Predicates : Stated("eat_if", predicate, eat_if(text, frames, predicate))

GuardedEat ==
  \E eof_only \in BOOLEAN, predicate \in Predicates :
    Stated(IF eof_only THEN "guard_eof_only" ELSE "guard", predicate,
           guard(eof_only, eat_if(text, frames, predicate)))

WhileEnter ==
  \E predicate \in Predicates :
    /\ pc = "body"
    /\ pc' = "while"
    /\ op' = Op("while", predicate, <<>>)
    /\ pre' = frames
    /\ res' = Result(frames)
    /\ UNCHANGED <<text, frames, tokens>>

\* one eat_if of the loop, r its result under the guard: a character eaten
\* goes round the loop again, a raise leaves the loop through the guard
WhileTurn(e, r) ==
  /\ res' = r
  /\ frames' = r.frames
  /\ pc' = IF e.exc = NoExc THEN "while" ELSE IF r.exc = NoExc THEN "body" ELSE "raised"
  /\ UNCHANGED <<text, op, pre, tokens>>

WhileEat ==
  /\ pc = "while"
  /\ eat_if(text, frames, op.predicate).exc = NoExc
  /\ WhileTurn(eat_if(text, frames, op.predicate),
               guard(FALSE, eat_if(text, frames, op.predicate)))

WhileExit ==
  /\ pc = "while"
  /\ eat_if(text, frames, op.predicate).exc # NoExc
  /\ WhileTurn(eat_if(text, frames, op.predicate),
               guard(FALSE, eat_if(text, frames, op.predicate)))

NextGuard == Open \/ Eat \/ GuardedEat \/ WhileEnter \/ WhileEat \/ WhileExit

\* a loop that was entered keeps running: its turns are steps of one thread
SpecGuard == InitGuard /\ [][NextGuard]_vars /\ WF_vars(WhileEat \/ WhileExit)

\* ================================================================== claims
IsParser(name) == name \in Parsers
Top(fs) == fs[Len(fs)]

\* C1 (SpecApi).  Rollback exactness: whenever a matcher (p_str, p_dot, p_hex,
\* p_bin, p_dec) called at any position and any depth of open frames fails, the
\* frame stack after the call is the stack before it: the position is the one
\* before the attempt and no enclosing frame has changed.
C1_RollbackExact ==
  (IsParser(op.name) /\ res.exc # NoExc) =>
     /\ frames = pre
     /\ position(frames) = position(pre)

\* p_str, called with two frames open at an opening quote, ate the quote and
\* whatever followed, and failed at the end of input
C1_Witness ==
  /\ op.name = "p_str"
  /\ Len(pre) >= 2
  /\ index(pre) > 0
  /\ index(pre) < Len(text)
  /\ text[index(pre) + 1] \in Quotes
  /\ res.exc = "EatFailed"
  /\ res.failed_on_eof

\* C2 (SpecApi).  Commit propagation: commit() with at least two frames pops the
\* top frame and sets the parent's end to the popped frame's end; the parent's
\* start and every deeper frame are unchanged.  A matcher that succeeds leaves
\* the frame it was called in ending where its token ends.
C2_CommitPropagates ==
  /\ (op.name = "commit" /\ Len(pre) >= 2) =>
        /\ res.exc = NoExc
        /\ Len(frames) = Len(pre) - 1
        /\ Top(frames).end_index = Top(pre).end_index
        /\ Top(frames).start_index = pre[Len(pre) - 1].start_index
        /\ \A i \in 1..(Len(pre) - 2) : frames[i] = pre[i]
  /\ (IsParser(op.name) /\ res.exc = NoExc) =>
        /\ Len(frames) = Len(pre)
        /\ Top(frames).end_index = res.token.end_index
        /\ Top(frames).start_index = Top(pre).start_index
        /\ \A i \in 1..(Len(pre) - 1) : frames[i] = pre[i]

\* commit() of a third frame that had advanced past its parent's end
C2_Witness ==
  /\ op.name = "commit"
  /\ Len(pre) = 3
  /\ pre[3].end_index > pre[2].end_index
  /\ pre[2].end_index > pre[1].end_index
  /\ frames[2].end_index = pre[3].end_index

\* C3 (SpecApi), as claimed.  After commit() on the only frame of the stack, a
\* frame that had advanced, the next peek() or begin() sees the committed
\* frame's end as the position.
C3_CommitOfOnlyFrameKeepsPosition ==
  (op.name = "commit" /\ Len(pre) = 1 /\ pre[1].end_index > pre[1].start_index) =>
     /\ peek(text, frames).exc = NoExc
     /\ begin(frames).exc = NoExc
     /\ position(frames) = pre[1].end_index

\* C4 (SpecApi), as claimed.  begin() always succeeds and pushes one frame with
\* start = end = the position: the top frame's end, or the base position 0 on a
\* cursor that has no frame.
C4_BeginAlwaysPushes ==
  (op.name = "begin") =>
     /\ res.exc = NoExc
     /\ Len(frames) = Len(pre) + 1
     /\ Top(frames) = IF pre = <<>> THEN Frame(0, 0) ELSE Frame(index(pre), index(pre))

\* C5 (SpecApi), as claimed.  EatFailed never leaves a matcher: a matcher whose
\* body raised EatFailed raises ParsingFailed.
C5_EatFailedNeverEscapes ==
  (IsParser(op.name) /\ pre # <<>>) => res.exc \in {NoExc, "ParsingFailed"}

\* the rules of a list that succeed when called on stack fs
Succeeding(parsers, t, fs) ==
  {i \in DOMAIN parsers : call(parsers[i], t, fs).exc = NoExc}
Lowest(S) == CHOOSE i \in S : \A j \in S : i <= j

\* C6 (SpecDispatch), as claimed.  first_parser invokes the rules in list order,
\* each at the position p it was called at, returns the token of the
\* lowest-indexed rule that succeeds at p and invokes no rule after it.
C6_OrderedDispatch ==
  (op.name = "first_parser" /\ pre # <<>>) =>
     /\ Len(res.calls) <= Len(op.parsers)
     /\ \A k \in DOMAIN res.calls :
          res.calls[k] = [parser |-> op.parsers[k], at |-> position(pre)]
     /\ Succeeding(op.parsers, text, pre) # {} =>
          /\ res.exc = NoExc
          /\ res.token = call(op.parsers[Lowest(Succeeding(op.parsers, text, pre))], text, pre).token
          /\ Len(res.calls) = Lowest(Succeeding(op.parsers, text, pre))

\* C7 (Spec), as claimed.  When every rule fails at the dispatch position,
\* first_parser raises ParsingFailed after trying each rule once, and the
\* driver stops with it: no token is added and the position is not moved.
C7_AllFailRaisesParsingFailed ==
  (op.name = "first_parser" /\ Succeeding(parser_registry, text, pre) = {}) =>
     /\ pc = "raised"
     /\ res.exc = "ParsingFailed"
     /\ Len(res.calls) = Len(parser_registry)
     /\ \A k \in DOMAIN res.calls :
          res.calls[k] = [parser |-> parser_registry[k], at |-> position(pre)]
     /\ frames = pre

\* C8 (Spec), as claimed.  A turn of the driver that starts at the end of input
\* ends the run normally without a dispatch; on the empty input the run ends
\* normally with no token.
C8_EndOfInputTerminates ==
  /\ (pc # "loop" /\ pre # <<>> /\ position(pre) = Len(text)) =>
        (pc = "done" /\ op.name = "peek" /\ frames = pre)
  /\ (pc # "loop" /\ text = <<>>) =>
        (pc = "done" /\ tokens = <<>> /\ res.exc = NoExc)

\* position p of t holds a quote that does not occur again before the end
Unterminated(t, p) ==
  /\ 0 <= p /\ p < Len(t)
  /\ t[p + 1] \in Quotes
  /\ \A j \in (p + 2)..Len(t) : t[j] # t[p + 1]

\* C9 (Spec).  Unterminated string is fatal: when a dispatch starts at a quote
\* that does not occur again before the end of input, p_str fails with the
\* frame stack as it was at the opening quote, the turn yields no token (no
\* STRING token starts at that quote), and the run ends with the failure.
C9_UnterminatedStringFatal ==
  (op.name = "first_parser" /\ Unterminated(text, position(pre))) =>
     /\ call("p_str", text, pre).exc # NoExc
     /\ call("p_str", text, pre).frames = pre
     /\ pc = "raised"
     /\ res.exc # NoExc
     /\ res.token = NoToken
     /\ frames = pre
     /\ \A k \in DOMAIN tokens : tokens[k].start_index # position(pre)

\* "abc with no closing quote: p_str ate the four characters, failed at the end
\* of input and the run ended at position 0
C9_Witness ==
  /\ text = <<"\"", "a", "b", "c">>
  /\ op.name = "first_parser"
  /\ pc = "raised"
  /\ res.exc = "EatFailed"
  /\ res.failed_on_eof
  /\ res.calls = <<[parser |-> "p_str", at |-> 0]>>
  /\ frames = Cursor

\* the end of the longest run of digits of t that starts at position p
RECURSIVE RunEnd(_, _, _)
RunEnd(t, p, digits) ==
  IF p < Len(t) /\ t[p + 1] \in digits THEN RunEnd(t, p + 1, digits) ELSE p

\* position p of t starts with "0", the letter and one of the digits
Prefixed(t, p, letter, digits) ==
  /\ 0 <= p /\ p + 2 < Len(t)
  /\ t[p + 1] = "0" /\ t[p + 2] = letter /\ t[p + 3] \in digits

\* C10 (Spec), as claimed.  A dispatch at "0x" and a hex digit (at "0b" and a
\* binary digit) returns one HEX (BIN) token from the prefix to the end of the
\* longest run of such digits; 0x1A.5 gives HEX 0x1A, DOT ., DEC 5 and 0b101
\* gives BIN 0b101.
C10_PrefixedLiterals ==
  /\ (op.name = "first_parser" /\ Prefixed(text, position(pre), "x", HexDigits)) =>
        /\ res.exc = NoExc
        /\ res.token = Token("HEX",
             SubSeq(text, position(pre) + 1, RunEnd(text, position(pre) + 2, HexDigits)),
             position(pre), RunEnd(text, position(pre) + 2, HexDigits))
  /\ (op.name = "first_parser" /\ Prefixed(text, position(pre), "b", BinDigits)) =>
        /\ res.exc = NoExc
        /\ res.token = Token("BIN",
             SubSeq(text, position(pre) + 1, RunEnd(text, position(pre) + 2, BinDigits)),
             position(pre), RunEnd(text, position(pre) + 2, BinDigits))
  /\ (text = <<"0", "x", "1", "A", ".", "5">> /\ pc # "loop" /\ pre # <<>>) =>
        /\ pc = "done"
        /\ tokens = << Token("HEX", <<"0", "x", "1", "A">>, 0, 4),
                       Token("DOT", <<".">>, 4, 5),
                       Token("DEC", <<"5">>, 5, 6) >>
  /\ (text = <<"0", "b", "1", "0", "1">> /\ pc # "loop" /\ pre # <<>>) =>
        /\ pc = "done"
        /\ tokens = << Token("BIN", <<"0", "b", "1", "0", "1">>, 0, 5) >>

\* position p of t starts a run of decimal digits that ends before a "."
DigitsThenDot(t, p) ==
  /\ 0 <= p /\ p < Len(t)
  /\ t[p + 1] \in DecDigits
  /\ RunEnd(t, p, DecDigits) < Len(t)
  /\ t[RunEnd(t, p, DecDigits) + 1] = "."

\* ... and no decimal digit follows that "."
LoneDot(t, p) ==
  /\ DigitsThenDot(t, p)
  /\ \/ RunEnd(t, p, DecDigits) + 1 = Len(t)
     \/ t[RunEnd(t, p, DecDigits) + 2] \notin DecDigits

\* C11 (Spec), as claimed.  A dispatch at a run of decimal digits followed by a
\* "." that no digit follows returns a DEC token for the run and leaves the "."
\* to the next dispatch; 1..2 gives DEC 1, DOT ., DOT ., DEC 2 and the run ends
\* normally.
C11_LoneDotLeftToNextDispatch ==
  /\ (op.name = "first_parser" /\ LoneDot(text, position(pre))) =>
        /\ call("p_dec", text, pre).token =
             Token("DEC",
               SubSeq(text, position(pre) + 1, RunEnd(text, position(pre), DecDigits)),
               position(pre), RunEnd(text, position(pre), DecDigits))
        /\ res.exc = NoExc
        /\ res.token = call("p_dec", text, pre).token
        /\ position(frames) = RunEnd(text, position(pre), DecDigits)
  /\ (text = <<"1", ".", ".", "2">> /\ pc # "loop" /\ pre # <<>>) =>
        /\ pc = "done"
        /\ tokens = << Token("DEC", <<"1">>, 0, 1),
                       Token("DOT", <<".">>, 1, 2),
                       Token("DOT", <<".">>, 2, 3),
                       Token("DEC", <<"2">>, 3, 4) >>

\* position p of t holds "0b" with no binary digit after it
PrefixAlone(t, p) ==
  /\ 0 <= p /\ p + 1 < Len(t)
  /\ t[p + 1] = "0" /\ t[p + 2] = "b"
  /\ (p + 2 = Len(t) \/ t[p + 3] \notin BinDigits)

C13_DecimalPointNeedsFraction ==
  /\ (op.name = "p_dec" /\ LoneDot(text, position(pre))) =>
        /\ res.exc = "EatFailed"
        /\ res.failed_on_eof = (RunEnd(text, position(pre), DecDigits) + 1 = Len(text))
        /\ res.token = NoToken
        /\ frames = pre
  /\ (op.name = "p_dec" /\ DigitsThenDot(text, position(pre))
        /\ ~LoneDot(text, position(pre))) =>
        /\ res.exc = NoExc
        /\ res.token.ty = "DEC"
        /\ res.token.start_index = position(pre)
        /\ res.token.end_index =
             RunEnd(text, RunEnd(text, position(pre), DecDigits) + 1, DecDigits)
        /\ position(frames) = res.token.end_index

\* p_dec called on 1..2 inside an open frame ate "1" and ".", failed on the
\* second "." and left the position at 0
C13_Witness ==
  /\ text = <<"1", ".", ".", "2">>
  /\ op.name = "p_dec"
  /\ Len(pre) >= 2
  /\ position(pre) = 0
  /\ res.exc = "EatFailed"
  /\ ~res.failed_on_eof
  /\ frames = pre

\* C14 (SpecApi).  eat_if called with a frame open: when the position is before
\* the end of input and the character there satisfies the predicate, it returns
\* that character and advances the end of the top frame by exactly 1, every
\* other frame unchanged; otherwise it raises EatFailed, failed_on_eof being
\* true exactly when the position is at the end of input, and every frame is
\* unchanged.
C14_EatIfAdvancesOrRaises ==
  (op.name = "eat_if" /\ pre # <<>>) =>
     IF index(pre) < Len(text) /\ text[index(pre) + 1] \in op.predicate
     THEN /\ res.exc = NoExc
          /\ res.chr = text[index(pre) + 1]
          /\ Len(frames) = Len(pre)
          /\ Top(frames) = Frame(Top(pre).start_index, Top(pre).end_index + 1)
          /\ \A i \in 1..(Len(pre) - 1) : frames[i] = pre[i]
     ELSE /\ res.exc = "EatFailed"
          /\ res.failed_on_eof = (index(pre) >= Len(text))
          /\ frames = pre

\* eat_if of a decimal digit met another character in the second frame of a
\* cursor that had advanced, and raised without moving
C14_Witness ==
  /\ op.name = "eat_if"
  /\ op.predicate = DecDigits
  /\ Len(pre) >= 2
  /\ index(pre) > 0
  /\ index(pre) < Len(text)
  /\ res.exc = "EatFailed"
  /\ ~res.failed_on_eof
  /\ frames = pre

\* every character of t from position p up to position q satisfies the predicate
AllSatisfy(t, p, q, predicate) == \A j \in (p + 1)..q : t[j] \in predicate

\* C15 (SpecGuard).  Greedy repetition: the guarded loop "while eat_if(pred)"
\* always terminates and never raises; when it exits, the position is the end
\* of the longest run of characters satisfying pred from where the loop
\* started, which is the end of input or the first character that does not
\* satisfy pred: that character is not consumed, every character before it is,
\* and only the end of the top frame has moved.  It is the result the loop has
\* inside the matchers.
C15_GreedyLoopTerminates ==
  /\ [](op.name = "while" => pc \in {"while", "body"})
  /\ []((op.name = "while" /\ pc = "while") =>
          /\ position(pre) <= position(frames)
          /\ position(frames) <= RunEnd(text, position(pre), op.predicate)
          /\ AllSatisfy(text, position(pre), position(frames), op.predicate))
  /\ []((op.name = "while" /\ pc = "body") =>
          /\ res.exc = NoExc
          /\ position(frames) = RunEnd(text, position(pre), op.predicate)
          /\ \/ position(frames) = Len(text)
             \/ text[position(frames) + 1] \notin op.predicate
          /\ AllSatisfy(text, position(pre), position(frames), op.predicate)
          /\ frames = [pre EXCEPT ![Len(pre)].end_index = position(frames)]
          /\ frames = guard(FALSE, eat_while(text, pre, op.predicate)).frames)
  /\ ((pc = "while") ~> (pc = "body"))

\* a loop over decimal digits ate at least two of them and stopped before a
\* character that is not a digit
C15_Witness ==
  /\ op.name = "while"
  /\ op.predicate = DecDigits
  /\ pc = "body"
  /\ position(frames) >= position(pre) + 2
  /\ position(frames) < Len(text)
  /\ text[position(frames) + 1] \notin DecDigits

\* the eat_if of a guarded statement called on stack fs eats a character
Eats(t, fs, predicate) == index(fs) < Len(t) /\ t[index(fs) + 1] \in predicate

\* C16 (SpecGuard).  Guard modes: guard() with eof_only false swallows every
\* EatFailed of its body, at the end of input and on a character that does not
\* match; guard(eof_only=True) swallows an EatFailed raised at the end of input
\* and re-raises the one raised on a character that does not match.  In both
\* modes the frame stack is the one the body left.
C16_GuardModes ==
  /\ (op.name = "guard") =>
        /\ res.exc = NoExc
        /\ frames = eat_if(text, pre, op.predicate).frames
        /\ (~Eats(text, pre, op.predicate) => frames = pre)
  /\ (op.name = "guard_eof_only") =>
        /\ frames = eat_if(text, pre, op.predicate).frames
        /\ (Eats(text, pre, op.predicate) => res.exc = NoExc)
        /\ (index(pre) >= Len(text) => (res.exc = NoExc /\ frames = pre))
        /\ (index(pre) < Len(text) /\ ~Eats(text, pre, op.predicate)) =>
              /\ res.exc = "EatFailed"
              /\ ~res.failed_on_eof
              /\ frames = pre

\* guard(eof_only=True) around eat_if of a decimal digit re-raised the failure
\* on a character that is not a digit
C16_Witness ==
  /\ op.name = "guard_eof_only"
  /\ op.predicate = DecDigits
  /\ index(pre) > 0
  /\ index(pre) < Len(text)
  /\ res.exc = "EatFailed"
  /\ ~res.failed_on_eof
  /\ frames = pre

\* a matcher called as the body of an enclosing scope opened on stack fs
Nested(parser, t, fs) ==
  transaction(begin(fs), call(parser, t, begin(fs).frames))

\* the frames of fs below its top frame
Below(fs) == SubSeq(fs, 1, Len(fs) - 1)

C18_FrameInvariant ==
  /\ \A i \in DOMAIN frames :
       /\ 0 <= frames[i].start_index
       /\ frames[i].start_index <= frames[i].end_index
       /\ frames[i].end_index <= Len(text)
  /\ \A i \in 1..(Len(frames) - 1) :
       frames[i + 1].start_index = frames[i].end_index
  /\ \A i \in 1..(Len(frames) - 1) :
       i <= Len(pre) => frames[i] = pre[i]

\* three frames open, each advanced past the one below it
C18_Witness ==
  /\ Len(frames) = 3
  /\ frames[1].end_index > frames[1].start_index
  /\ frames[2].end_index > frames[2].start_index
  /\ frames[3].end_index > frames[3].start_index
  /\ frames[3].end_index = Len(text)
  /\ op.name = "eat_if"

\* C19 (Spec).  The tokens yielded tile the input in order: the first starts at
\* position 0, each later one starts where the one before it ends, the value of
\* each is text[start:end], the cursor stands at the end of the last one, and
\* when the run ends normally the last token ends at Len(text) (with no token,
\* the text is empty).
C19_TokensTile ==
  /\ tokens # <<>> => tokens[1].start_index = 0
  /\ \A k \in 1..(Len(tokens) - 1) :
       tokens[k + 1].start_index = tokens[k].end_index
  /\ \A k \in DOMAIN tokens :
       /\ 0 <= tokens[k].start_index
       /\ tokens[k].end_index <= Len(text)
       /\ Len(tokens[k].value) = tokens[k].end_index - tokens[k].start_index
       /\ \A j \in 1..Len(tokens[k].value) :
            tokens[k].value[j] = text[tokens[k].start_index + j]
  /\ tokens # <<>> => position(frames) = tokens[Len(tokens)].end_index
  /\ (pc = "done" /\ tokens # <<>>) => tokens[Len(tokens)].end_index = Len(text)
  /\ (pc = "done" /\ tokens = <<>>) => text = <<>>

\* '0''x' was tokenized as two STRING tokens, 0..3 and 3..6, and the run ended
\* normally
C19_Witness ==
  /\ text = <<"'", "0", "'", "'", "x", "'">>
  /\ pc = "done"
  /\ Len(tokens) = 2
  /\ tokens[1].end_index = 3
  /\ tokens[2].start_index = 3
  /\ tokens[2].end_index = 6

\* C20 (SpecLive).  The driver terminates on every input: every token a
\* matcher returns is non-empty (end > start), so a dispatch that yields moves
\* the position strictly forward, never past Len(text), a dispatch that raises
\* ends the run, at most Len(text) tokens are yielded, and every run reaches
\* its end, by returning or by raising.
C20_DriverTerminates ==
  /\ [](\A k \in DOMAIN tokens : tokens[k].end_index > tokens[k].start_index)
  /\ [](\A parser \in Parsers :
          call(parser, text, frames).exc = NoExc =>
            call(parser, text, frames).token.end_index >
              call(parser, text, frames).token.start_index)
  /\ []((op.name = "first_parser" /\ res.exc = NoExc) =>
          /\ position(frames) > position(pre)
          /\ position(frames) <= Len(text))
  /\ []((op.name = "first_parser" /\ res.exc # NoExc) => pc = "raised")
  /\ [](Len(tokens) <= Len(text))
  /\ <>(pc \in {"done", "raised"})

\* a run that dispatched twice, each time moving forward, and then returned
C20_Witness ==
  /\ pc = "done"
  /\ Len(tokens) = 2
  /\ tokens[1].end_index > 0
  /\ tokens[2].end_index > tokens[1].end_index
  /\ position(frames) = Len(text)

====
